---- MODULE Spec2Model ----
(***************************************************************************)
(* Model of the organisationsnummer crate (src/src/lib.rs): parsing of a   *)
(* Swedish organization number, its formatting, classification and VAT     *)
(* number, and the private Luhn checksum.                                  *)
(*                                                                         *)
(* A Rust String is modelled as a sequence of characters, each character a *)
(* one-element TLA+ string.  The character "U+0663" stands for ARABIC-INDIC*)
(* DIGIT THREE: the regex crate's \d is Unicode aware and matches it, while*)
(* str::parse::<u32> and char::to_digit(10) do not read it as a digit, and *)
(* it takes two bytes in UTF-8, which matters to the byte-offset slices.   *)
(***************************************************************************)
EXTENDS Integers, Sequences, FiniteSets, TLC

VARIABLES
    org,        \* the &str handed to Organisationsnummer::new / parse
    pc,         \* "start" before new() has run, "parsed" after it
    instance,   \* the Result of new(): Ok(Organisationsnummer) or Err(InvalidInput)
    out,        \* what the last method called on the instance returned
    value,      \* the String handed to a direct call of luhn()
    checked,    \* whether luhn(value) has returned
    valid_sum   \* what luhn(value) returned

vars == <<org, pc, instance, out, value, checked, valid_sum>>

---------------------------------------------------------------------------
(* Characters and strings *)

DigitChars == <<"0", "1", "2", "3", "4", "5", "6", "7", "8", "9">>

AsciiDigits == {DigitChars[i] : i \in 1..10}

ArabicThree == "U+0663"

\* What the regex crate's \d matches (Unicode class Nd), as far as the inputs go.
UnicodeDigits == AsciiDigits \cup {ArabicThree}

DigitChar(d) == DigitChars[d + 1]

D2(n) == <<DigitChar(n \div 10), DigitChar(n % 10)>>

D3(n) == <<DigitChar(n \div 100), DigitChar((n \div 10) % 10), DigitChar(n % 10)>>

\* char::len_utf8
ByteLen(c) == IF c = ArabicThree THEN 2 ELSE 1

RECURSIVE ByteSize(_)
ByteSize(s) == IF s = <<>> THEN 0 ELSE ByteLen(Head(s)) + ByteSize(Tail(s))

\* Whether byte offset b falls between two characters of s (str::is_char_boundary).
IsCharBoundary(s, b) == \E k \in 0..Len(s) : ByteSize(SubSeq(s, 1, k)) = b

\* The number of characters of s that lie before byte offset b (a boundary).
CharsBefore(s, b) == CHOOSE k \in 0..Len(s) : ByteSize(SubSeq(s, 1, k)) = b

\* &s[from..to] with byte offsets: it panics unless both are character boundaries.
SliceOk(s, from, to) ==
    /\ from <= to
    /\ IsCharBoundary(s, from)
    /\ IsCharBoundary(s, to)

Slice(s, from, to) == SubSeq(s, CharsBefore(s, from) + 1, CharsBefore(s, to))

SliceFrom(s, from) == Slice(s, from, ByteSize(s))

\* str::replace(s, from, to) for a one-character pattern; to is a string.
RECURSIVE replace(_, _, _)
replace(s, from, to) ==
    IF s = <<>> THEN <<>>
    ELSE IF Head(s) = from THEN to \o replace(Tail(s), from, to)
    ELSE <<Head(s)>> \o replace(Tail(s), from, to)

\* char::to_digit(10).unwrap_or(0)
to_digit(c) ==
    IF c \in AsciiDigits THEN CHOOSE d \in 0..9 : DigitChar(d) = c ELSE 0

AllIn(s, S) == \A i \in 1..Len(s) : s[i] \in S

---------------------------------------------------------------------------
(* luhn *)

luhn_term(idx, v) ==
    LET doubled == IF idx % 2 = 0 THEN v * 2 ELSE v
    IN  IF doubled > 9 THEN doubled - 9 ELSE doubled

\* The fold of luhn over the characters at zero-based indices idx, idx + 1, ...
RECURSIVE luhn_fold(_, _, _)
luhn_fold(s, idx, acc) ==
    IF s = <<>> THEN acc
    ELSE luhn_fold(Tail(s), idx + 1, acc + luhn_term(idx, to_digit(Head(s))))

luhn_checksum(s) == luhn_fold(s, 0, 0)

\* checksum as u8
as_u8(n) == n % 256

luhn(s) == (10 - (as_u8(luhn_checksum(s)) % 10)) % 10 = 0

---------------------------------------------------------------------------
(* ORG_REGEX: ^(\d{2}){0,1}(\d{2})(\d{2})(\d{2})([-+]?)?(\d{3})(\d)$ *)

Separators == {"-", "+"}

\* The groups are fixed-width, and a separator is no digit, so the length of the
\* input decides which optional parts are present: 10 = no prefix, no separator;
\* 11 = separator; 12 = prefix; 13 = prefix and separator.
HasPrefix(s) == Len(s) \in {12, 13}

HasSeparator(s) == Len(s) \in {11, 13}

PrefixLen(s) == IF HasPrefix(s) THEN 2 ELSE 0

SepLen(s) == IF HasSeparator(s) THEN 1 ELSE 0

is_match(s) ==
    /\ Len(s) \in 10..13
    /\ \A i \in 1..(PrefixLen(s) + 6) : s[i] \in UnicodeDigits
    /\ HasSeparator(s) => s[PrefixLen(s) + 7] \in Separators
    /\ \A i \in (PrefixLen(s) + SepLen(s) + 7)..Len(s) : s[i] \in UnicodeDigits

\* ORG_REGEX.captures(org); group 1 is None when has1 is FALSE.
captures(s) ==
    LET p == PrefixLen(s)
        q == p + SepLen(s)
    IN  IF is_match(s)
        THEN [matched |-> TRUE,
              has1 |-> HasPrefix(s),
              g1 |-> SubSeq(s, 1, p),
              g2 |-> SubSeq(s, p + 1, p + 2),
              g3 |-> SubSeq(s, p + 3, p + 4),
              g4 |-> SubSeq(s, p + 5, p + 6),
              g5 |-> SubSeq(s, p + 7, q + 6),
              g6 |-> SubSeq(s, q + 7, q + 9),
              g7 |-> SubSeq(s, q + 10, q + 10)]
        ELSE [matched |-> FALSE, has1 |-> FALSE, g1 |-> <<>>, g2 |-> <<>>,
              g3 |-> <<>>, g4 |-> <<>>, g5 |-> <<>>, g6 |-> <<>>, g7 |-> <<>>]

RECURSIVE decimal(_, _)
decimal(s, acc) ==
    IF s = <<>> THEN acc ELSE decimal(Tail(s), acc * 10 + to_digit(Head(s)))

\* m.unwrap().as_str().parse::<u32>().unwrap_or(0): str::parse reads ASCII
\* digits only, so a group holding any other decimal digit yields 0.
match_to_u32(m) == IF m # <<>> /\ AllIn(m, AsciiDigits) THEN decimal(m, 0) ELSE 0

---------------------------------------------------------------------------
(* The Organisationsnummer value and the Result of its construction *)

NoPersonnummer == [some |-> FALSE, long |-> <<>>, age |-> 0]

InvalidInput == [ok |-> FALSE, personnummer |-> NoPersonnummer, number |-> <<>>]

Organisationsnummer(pnr, number) ==
    [ok |-> TRUE, personnummer |-> pnr, number |-> number]

\* try_from with the bound on the second group taken strictly, as its comment
\* words it ("must be more than 20").
try_from_more_than_20(s) ==
    LET caps == captures(s)
        prefix == IF caps.has1 THEN match_to_u32(caps.g1) ELSE 0
        number0 == replace(s, "-", <<>>)
        number == IF prefix # 0 THEN SliceFrom(number0, 2) ELSE number0
        third == match_to_u32(caps.g3)
        second == match_to_u32(caps.g2)
    IN  IF ~caps.matched THEN InvalidInput
        ELSE IF prefix # 0 /\ prefix # 16 THEN InvalidInput
        ELSE IF third <= 20 THEN InvalidInput
        ELSE IF second < 10 THEN InvalidInput
        ELSE IF ~luhn(number) THEN InvalidInput
        ELSE Organisationsnummer(NoPersonnummer, number)

\* impl TryFrom<&str> for Organisationsnummer
try_from(s) ==
    LET caps == captures(s)
        prefix == IF caps.has1 THEN match_to_u32(caps.g1) ELSE 0
        number0 == replace(s, "-", <<>>)
        number == IF prefix # 0 THEN SliceFrom(number0, 2) ELSE number0
        third == match_to_u32(caps.g3)
        second == match_to_u32(caps.g2)
    IN  IF ~caps.matched THEN InvalidInput
        ELSE IF prefix # 0 /\ prefix # 16 THEN InvalidInput
        ELSE IF third < 20 THEN InvalidInput
        ELSE IF second < 10 THEN InvalidInput
        ELSE IF ~luhn(number) THEN InvalidInput
        ELSE Organisationsnummer(NoPersonnummer, number)

\* Organisationsnummer::new, given what Personnummer::new(org) returned
new(s, pnr) ==
    IF pnr.some THEN Organisationsnummer(pnr, replace(s, "-", <<>>))
    ELSE try_from(s)

---------------------------------------------------------------------------
(* The personnummer crate, the external collaborator.  Its source is not   *)
(* part of this repository: it is modelled as the opaque capability the    *)
(* specification describes.  A Personnummer is kept as the long form its   *)
(* format() produces (8 digits, "-", 4 digits) and the age get_age()       *)
(* reports, which depends on the day of the call.                          *)

AgeLimit == 100

Ages == {0, AgeLimit - 1, AgeLimit, AgeLimit + 1}

Centuries == {<<"1", "9">>, <<"2", "0">>}

\* The standard Luhn validity of a digit string, with no narrowing of the sum.
LuhnValid(s) == luhn_checksum(s) % 10 = 0

\* Personnummer::new(s): the set of values it may return; empty when it fails.
Personnummer_new(s) ==
    LET p == PrefixLen(s)
        q == p + SepLen(s)
        ten == SubSeq(s, p + 1, p + 6) \o SubSeq(s, q + 7, q + 10)
        month == decimal(SubSeq(s, p + 3, p + 4), 0)
        day == decimal(SubSeq(s, p + 5, p + 6), 0)
        accepted ==
            /\ is_match(s)
            /\ AllIn(replace(replace(s, "-", <<>>), "+", <<>>), AsciiDigits)
            /\ month \in 1..12
            /\ day \in (1..31) \cup (61..91)
            /\ LuhnValid(ten)
    IN  IF ~accepted THEN {}
        ELSE {[some |-> TRUE,
               long |-> c \o SubSeq(ten, 1, 6) \o <<"-">> \o SubSeq(ten, 7, 10),
               age |-> a] :
                 c \in (IF HasPrefix(s) THEN {SubSeq(s, 1, 2)} ELSE Centuries),
                 a \in Ages}

\* Personnummer::format(): long as kept, short the long form without its century.
pnr_format(pnr) == [long |-> pnr.long, short |-> SliceFrom(pnr.long, 2)]

---------------------------------------------------------------------------
(* The methods of Organisationsnummer *)

NoOut ==
    [op |-> "none", panic |-> FALSE, long |-> <<>>, short |-> <<>>,
     text |-> "", flag |-> FALSE]

Panicked(name) == [NoOut EXCEPT !.op = name, !.panic = TRUE]

\* format with the age test off by one (age > 100).
format_age_over_100(self) ==
    IF self.personnummer.some
    THEN LET f == pnr_format(self.personnummer)
             s == f.short
             l == IF self.personnummer.age > AgeLimit
                  THEN replace(f.long, "-", <<"+">>)
                  ELSE f.long
         IN  [NoOut EXCEPT !.op = "format",
                           !.long = SliceFrom(l, 2),
                           !.short = Slice(s, 0, 6) \o SliceFrom(s, 7)]
    ELSE IF SliceOk(self.number, 6, ByteSize(self.number))
         THEN [NoOut EXCEPT !.op = "format",
                            !.long = Slice(self.number, 0, 6) \o <<"-">>
                                     \o SliceFrom(self.number, 6),
                            !.short = self.number]
         ELSE Panicked("format")

\* Organisationsnummer::format
format(self) ==
    IF self.personnummer.some
    THEN LET f == pnr_format(self.personnummer)
             s == f.short
             l == IF self.personnummer.age >= AgeLimit
                  THEN replace(f.long, "-", <<"+">>)
                  ELSE f.long
         IN  IF SliceOk(l, 2, ByteSize(l)) /\ SliceOk(s, 0, 6) /\ SliceOk(s, 7, ByteSize(s))
             THEN [NoOut EXCEPT !.op = "format",
                                !.long = SliceFrom(l, 2),
                                !.short = Slice(s, 0, 6) \o SliceFrom(s, 7)]
             ELSE Panicked("format")
    ELSE IF SliceOk(self.number, 6, ByteSize(self.number))
         THEN [NoOut EXCEPT !.op = "format",
                            !.long = Slice(self.number, 0, 6) \o <<"-">>
                                     \o SliceFrom(self.number, 6),
                            !.short = self.number]
         ELSE Panicked("format")

\* The match of r#type on the first digit
type_label(first) ==
    CASE first = 0 -> "Enskild firma"
      [] first = 1 -> "Dödsbon"
      [] first = 2 -> "Stat, landsting, kommun eller församling"
      [] first = 3 ->
           "Utländska företag som bedriver näringsverksamhet eller äger fastigheter i Sverige"
      [] first = 5 -> "Aktiebolag"
      [] first = 6 -> "Enkelt bolag"
      [] first = 7 -> "Ekonomisk förening eller bostadsrättsförening"
      [] first = 8 -> "'Ideella förening och stiftelse"
      [] first = 9 -> "Handelsbolag, kommanditbolag och enkelt bolag"
      [] OTHER -> "Okänt"

\* Organisationsnummer::r#type
r_type(self) ==
    LET first == IF self.personnummer.some THEN 0 ELSE to_digit(Head(self.number))
    IN  [NoOut EXCEPT !.op = "type", !.text = type_label(first)]

\* Organisationsnummer::vat_number; short holds the returned string.
vat_number(self) ==
    IF self.personnummer.some
    THEN LET l == pnr_format(self.personnummer).long
         IN  IF SliceOk(l, 2, 13)
             THEN [NoOut EXCEPT !.op = "vat_number",
                                !.short = <<"S", "E">>
                                          \o replace(Slice(l, 2, 13), "-", <<>>)
                                          \o <<"0", "1">>]
             ELSE Panicked("vat_number")
    ELSE [NoOut EXCEPT !.op = "vat_number",
                       !.short = <<"S", "E">> \o self.number \o <<"0", "1">>]

\* Organisationsnummer::valid
valid(self) == [NoOut EXCEPT !.op = "valid", !.flag = TRUE]

\* Organisationsnummer::is_personnummer
is_personnummer(self) ==
    [NoOut EXCEPT !.op = "is_personnummer", !.flag = self.personnummer.some]

\* Organisationsnummer::personnummer; flag tells whether it returned Ok.
personnummer(self) ==
    [NoOut EXCEPT !.op = "personnummer", !.flag = Personnummer_new(self.number) # {}]

---------------------------------------------------------------------------
(* The inputs the model draws *)

\* The longest string of the short malformed inputs.
MaxShort == 3

\* The longest run of one repeated digit in the strings handed to luhn directly.
MaxRun == 27

PrefixChoices == {<<>>, D2(0), D2(16), D2(19)}

FirstGroups == {9, 10, 12, 21, 30, 40, 55, 66, 70, 80, 90}

SecondGroups == {12, 19, 20, 60}

ThirdGroups == {12, 16}

SeparatorChoices == {<<>>, <<"-">>, <<"+">>}

SerialGroups == {68, 121}

\* Optional prefix, three two-digit groups, optional separator, serial, check digit.
StructuredInputs ==
    {p \o D2(a) \o D2(b) \o D2(c) \o sep \o D3(d) \o <<DigitChar(k)>> :
        p \in PrefixChoices, a \in FirstGroups, b \in SecondGroups,
        c \in ThirdGroups, sep \in SeparatorChoices, d \in SerialGroups, k \in 0..9}

\* Every two-digit prefix in front of 556016068k.
PrefixedInputs ==
    {D2(p) \o D2(55) \o D2(60) \o D2(16) \o sep \o D3(68) \o <<DigitChar(k)>> :
        p \in 0..99, sep \in {<<>>, <<"-">>}, k \in 0..1}

\* Inputs that hold a decimal digit outside ASCII.
UnicodeParts == {<<"1", "6">>, <<"1", ArabicThree>>, <<ArabicThree, "1">>}

UnicodeInputs ==
    {p \o D2(55) \o D2(60) \o c \o sep \o D3(68) \o <<k>> :
        p \in {<<>>} \cup UnicodeParts, c \in UnicodeParts,
        sep \in {<<>>, <<"-">>}, k \in UnicodeDigits}

ShortAlphabet == {"5", "-", "a"}

ShortInputs == UNION {[1..n -> ShortAlphabet] : n \in 0..MaxShort}

Body == D2(55) \o D2(60) \o D2(16)

MalformedInputs ==
    ShortInputs \cup
    { Body \o <<"-", "-">> \o D3(68) \o <<"0">>,
      Body \o <<"5">> \o D3(68) \o <<"0">>,
      D2(16) \o Body \o <<"5">> \o D3(68) \o <<"0">>,
      D2(16) \o D2(16) \o Body \o D3(68) \o <<"0">>,
      Body \o D3(68) \o <<"-", "0">>,
      Body \o <<"a">> \o D3(68) \o <<"0">>,
      <<"5", "5", "6", "0", "1", "a">> \o D3(68) \o <<"0">>,
      Body \o <<" ">> \o D3(68) \o <<"0">> }

Inputs == StructuredInputs \cup PrefixedInputs \cup UnicodeInputs \cup MalformedInputs

RECURSIVE Run(_, _)
Run(d, n) == IF n = 0 THEN <<>> ELSE <<DigitChar(d)>> \o Run(d, n - 1)

Tails == UNION {[1..n -> AsciiDigits] : n \in 0..2}

\* A run of one digit followed by up to two free digits.
LuhnInputs == {Run(d, n) \o t : d \in 0..9, n \in 0..MaxRun, t \in Tails}

---------------------------------------------------------------------------
(* The parser and the methods: one call of new(), then any calls of the    *)
(* methods on the value it returned.                                       *)

Init ==
    /\ org \in Inputs
    /\ pc = "start"
    /\ instance = InvalidInput
    /\ out = NoOut
    /\ value = <<>>
    /\ checked = FALSE
    /\ valid_sum = FALSE

\* Organisationsnummer::new(org) (parse is the same call)
New ==
    /\ pc = "start"
    /\ LET results == Personnummer_new(org)
       IN  IF results = {}
           THEN instance' = new(org, NoPersonnummer)
           ELSE \E pnr \in results : instance' = new(org, pnr)
    /\ pc' = "parsed"
    /\ UNCHANGED <<org, out, value, checked, valid_sum>>

\* instance.format()
Format ==
    /\ pc = "parsed"
    /\ instance.ok
    /\ out' = format(instance)
    /\ UNCHANGED <<org, pc, instance, value, checked, valid_sum>>

\* instance.r#type()
Type ==
    /\ pc = "parsed"
    /\ instance.ok
    /\ out' = r_type(instance)
    /\ UNCHANGED <<org, pc, instance, value, checked, valid_sum>>

\* instance.vat_number()
VatNumber ==
    /\ pc = "parsed"
    /\ instance.ok
    /\ out' = vat_number(instance)
    /\ UNCHANGED <<org, pc, instance, value, checked, valid_sum>>

\* instance.valid()
Valid ==
    /\ pc = "parsed"
    /\ instance.ok
    /\ out' = valid(instance)
    /\ UNCHANGED <<org, pc, instance, value, checked, valid_sum>>

\* instance.is_personnummer()
IsPersonnummer ==
    /\ pc = "parsed"
    /\ instance.ok
    /\ out' = is_personnummer(instance)
    /\ UNCHANGED <<org, pc, instance, value, checked, valid_sum>>

\* instance.personnummer()
GetPersonnummer ==
    /\ pc = "parsed"
    /\ instance.ok
    /\ out' = personnummer(instance)
    /\ UNCHANGED <<org, pc, instance, value, checked, valid_sum>>

Next ==
    \/ New
    \/ Format
    \/ Type
    \/ VatNumber
    \/ Valid
    \/ IsPersonnummer
    \/ GetPersonnummer

Spec == Init /\ [][Next]_vars

---------------------------------------------------------------------------
(* luhn called directly on a digit string *)

InitLuhn ==
    /\ org = <<>>
    /\ pc = "luhn"
    /\ instance = InvalidInput
    /\ out = NoOut
    /\ value \in LuhnInputs
    /\ checked = FALSE
    /\ valid_sum = FALSE

Luhn ==
    /\ pc = "luhn"
    /\ ~checked
    /\ valid_sum' = luhn(value)
    /\ checked' = TRUE
    /\ UNCHANGED <<org, pc, instance, out, value>>

NextLuhn == Luhn

SpecLuhn == InitLuhn /\ [][NextLuhn]_vars

---------------------------------------------------------------------------
(* Vocabulary of the properties *)

Parsed == pc = "parsed"

\* new() returned a value that holds no Personnummer: the structural fallback built it.
Plain == Parsed /\ instance.ok /\ ~instance.personnummer.some

PersonnummerBacked == Parsed /\ instance.ok /\ instance.personnummer.some

\* Personnummer::new(s) fails.
CollaboratorRejects(s) == Personnummer_new(s) = {}

\* s without its separators.
Unseparated(s) == replace(replace(s, "-", <<>>), "+", <<>>)

\* s has the shape of the pattern and all its digits are ASCII digits.
WellFormed(s) == is_match(s) /\ AllIn(Unseparated(s), AsciiDigits)

\* The 10 digits of a well-formed input: separator and prefix removed.
TenDigits(s) == SubSeq(Unseparated(s), PrefixLen(s) + 1, PrefixLen(s) + 10)

\* The reference Luhn sum: every digit at an even zero-based index is doubled,
\* a doubled value above 9 loses 9, and the values are added up.
RECURSIVE ReferenceSum(_, _)
ReferenceSum(s, n) ==
    IF n = 0 THEN 0
    ELSE LET v == to_digit(s[n])
             w == IF (n - 1) % 2 = 0 THEN 2 * v ELSE v
         IN  ReferenceSum(s, n - 1) + (IF w > 9 THEN w - 9 ELSE w)

ReferenceValid(s) == (10 - (ReferenceSum(s, Len(s)) % 10)) % 10 = 0

Value2(s, i) == 10 * to_digit(s[i]) + to_digit(s[i + 1])

\* The 10-digit canonical number of a Personnummer: its long form without the
\* century and without the dash.
Canonical(pnr) == SubSeq(pnr.long, 3, 8) \o SubSeq(pnr.long, 10, 13)

---------------------------------------------------------------------------
(* C1: a value built by the structural fallback holds a number of exactly  *)
(* 10 characters, each an ASCII digit.  Stated over the inputs made of     *)
(* ASCII digits and at most one separator, where it already fails.         *)
C1_NumberIsTenAsciiDigits ==
    (Plain /\ WellFormed(org)) =>
        Len(instance.number) = 10 /\ AllIn(instance.number, AsciiDigits)

(* C2: vat_number() of every parsed value is "SE", 10 ASCII digits, "01".  *)
(* Stated over the inputs made of ASCII digits and at most one separator,  *)
(* where it already fails.                                                 *)
C2_VatNumberPattern ==
    (out.op = "vat_number" /\ WellFormed(org)) =>
        /\ ~out.panic
        /\ Len(out.short) = 14
        /\ SubSeq(out.short, 1, 2) = <<"S", "E">>
        /\ AllIn(SubSeq(out.short, 3, 12), AsciiDigits)
        /\ SubSeq(out.short, 13, 14) = <<"0", "1">>

(* C3: when the collaborator rejects the input, an input that carries a    *)
(* two-digit prefix other than 16 is answered with InvalidInput.           *)
C3_OtherPrefixRejected ==
    (/\ Parsed
     /\ CollaboratorRejects(org)
     /\ WellFormed(org)
     /\ HasPrefix(org)
     /\ SubSeq(org, 1, 2) # <<"1", "6">>)
    => ~instance.ok

(* C4: for a 10-digit N and a separator s, parsing N with s after its      *)
(* sixth digit succeeds exactly when parsing N succeeds, and then both     *)
(* give the same long and short format.                                    *)
C4_SeparatorIrrelevant ==
    (/\ Parsed
     /\ WellFormed(org)
     /\ Len(org) = 11
     /\ CollaboratorRejects(org)
     /\ CollaboratorRejects(TenDigits(org)))
    => LET bare == new(TenDigits(org), NoPersonnummer)
       IN  /\ instance.ok = bare.ok
           /\ (instance.ok /\ out.op = "format") =>
                  /\ out.panic = format(bare).panic
                  /\ out.long = format(bare).long
                  /\ out.short = format(bare).short

(* C5: when the collaborator rejects the input, an input whose 10 digits   *)
(* (separator and a leading 16 removed) fail the Luhn checksum, or whose   *)
(* second group is below 20 or first group below 10, is answered with      *)
(* InvalidInput.                                                           *)
C5_InvalidDigitsRejected ==
    (/\ Parsed
     /\ CollaboratorRejects(org)
     /\ WellFormed(org)
     /\ HasPrefix(org) => SubSeq(org, 1, 2) = <<"1", "6">>
     /\ \/ ~ReferenceValid(TenDigits(org))
        \/ Value2(TenDigits(org), 3) < 20
        \/ Value2(TenDigits(org), 1) < 10)
    => ~instance.ok

(* C6 as stated: the long format of a personnummer-backed value is the     *)
(* canonical number split 6+4 with "-", whatever the age.                  *)
C6_LongAlwaysDash ==
    (PersonnummerBacked /\ out.op = "format") =>
        /\ ~out.panic
        /\ out.long = SubSeq(Canonical(instance.personnummer), 1, 6) \o <<"-">>
                      \o SubSeq(Canonical(instance.personnummer), 7, 10)

(* C6 as amended: the long format of a personnummer-backed value is the    *)
(* canonical number split 6+4, with "-" between the halves when the age is *)
(* below 100 and "+" when the age is 100 or more.                          *)
C6_LongSeparatorByAge ==
    (PersonnummerBacked /\ out.op = "format") =>
        /\ ~out.panic
        /\ out.long = SubSeq(Canonical(instance.personnummer), 1, 6)
                      \o (IF instance.personnummer.age >= 100 THEN <<"+">> ELSE <<"-">>)
                      \o SubSeq(Canonical(instance.personnummer), 7, 10)

C6_Witness ==
    /\ PersonnummerBacked
    /\ out.op = "format"
    /\ instance.personnummer.age >= 100
    /\ out.long[7] = "+"

\* The case C7 is about, once new() has returned.
C7_Precondition ==
    /\ Parsed
    /\ Len(org) = 10
    /\ AllIn(org, AsciiDigits)
    /\ ReferenceValid(org)
    /\ Value2(org, 1) >= 10
    /\ Value2(org, 3) >= 20
    /\ CollaboratorRejects(org)

TableLabel(d) ==
    CASE d = 1 -> "Dödsbon"
      [] d = 2 -> "Stat, landsting, kommun eller församling"
      [] d = 4 -> "Okänt"
      [] d = 5 -> "Aktiebolag"
      [] d = 6 -> "Enkelt bolag"
      [] d = 7 -> "Ekonomisk förening eller bostadsrättsförening"
      [] d = 8 -> "Ideella förening och stiftelse"
      [] d = 9 -> "Handelsbolag, kommanditbolag och enkelt bolag"

(* C8: type() is "Enskild firma" for a personnummer-backed value, and for  *)
(* a plain value whose number starts with 1, 2, 4, 5, 6, 7, 8 or 9 it is   *)
(* the table's label for that digit, character for character.             *)
C8_TypeLabels ==
    out.op = "type" =>
        /\ PersonnummerBacked => out.text = "Enskild firma"
        /\ (Plain /\ Head(instance.number) \in AsciiDigits \ {"0", "3"}) =>
               out.text = TableLabel(to_digit(Head(instance.number)))

(* C9: luhn returns true exactly when (10 - (sum mod 10)) mod 10 = 0 for   *)
(* the reference sum, for digit strings of any length.                     *)
C9_LuhnAgreesWithReference ==
    checked => (valid_sum <=> ReferenceValid(value))

(* C10: when luhn accepts a digit string, it rejects every string that     *)
(* differs from it in exactly one digit.                                   *)
C10_SingleDigitErrorDetected ==
    (checked /\ valid_sum) =>
        \A i \in 1..Len(value) : \A d \in AsciiDigits \ {value[i]} :
            ~luhn([value EXCEPT ![i] = d])

====
